---------------------------- MODULE Spec2Model ----------------------------
(***************************************************************************)
(* A model of the Gemini Quest backend: src/utils.py (escaping, cleaning,  *)
(* validation of the model's answer, the fetch) and src/app.py (the        *)
(* /api/questions handler with its response cache, category cache and      *)
(* used_questions pool, and /api/clear_cache).                             *)
(*                                                                         *)
(* Python strings are sequences of one-character strings, so that strip()  *)
(* and escape_json_string() are computed character by character.  Decoded  *)
(* JSON values are tagged records [t, v].  Optional[List] is a record      *)
(* [some, val]; None is [some |-> FALSE, val |-> <<>>].                    *)
(***************************************************************************)
EXTENDS Naturals, Sequences, FiniteSets, TLC

VARIABLES
    cache,           \* the SimpleCache of app.py:13: key -> stored value
    older,           \* category keys stored no later than the cached response
    used_questions,  \* app.py:16: category -> set of served question texts
    req,             \* per request thread: position and locals of get_questions
    clearPc,         \* position of the clear_cache_route thread
    response_text,   \* the text handed to parse_gemini_response (validator's specification)
    parsed,          \* [done, result]: what parse_gemini_response returned for it
    api_key,         \* utils.py:14: whether GEMINI_API_KEY is set in the process environment
    input_text,      \* a string handed to a text function (specifications of the text functions)
    trip             \* how far that string has travelled, and the values on the way

vars == <<cache, older, used_questions, req, clearPc, response_text, parsed, api_key, input_text, trip>>

-----------------------------------------------------------------------------
(* Bounds *)

\* longest candidate list in the validator's specification
MaxCandidates == 5
\* longest candidate list the model client returns to the handler
MaxBatch == 2
\* largest num_questions a caller asks for
MaxNum == 2

-----------------------------------------------------------------------------
(* Python values *)

None == [some |-> FALSE, val |-> <<>>]
Some(x) == [some |-> TRUE, val |-> x]
\* Python truthiness of an Optional[List]: None and [] are falsy
Truthy(o) == o.some /\ o.val # <<>>

JStr(s) == [t |-> "str", v |-> s]
JNum(n) == [t |-> "num", v |-> n]
JList(l) == [t |-> "list", v |-> l]
JDict(d) == [t |-> "dict", v |-> d]

Whitespace == {" ", "\t", "\n", "\r"}

RECURSIVE lstrip(_)
lstrip(s) == IF s # <<>> /\ Head(s) \in Whitespace THEN lstrip(Tail(s)) ELSE s

RECURSIVE rstrip(_)
rstrip(s) ==
    IF s # <<>> /\ s[Len(s)] \in Whitespace THEN rstrip(SubSeq(s, 1, Len(s) - 1)) ELSE s

\* str.strip()
strip(s) == rstrip(lstrip(s))

\* str.replace(old, new) for a one-character old
RECURSIVE replace(_, _, _)
replace(s, old, new) ==
    IF s = <<>> THEN <<>>
    ELSE (IF Head(s) = old THEN new ELSE <<Head(s)>>) \o replace(Tail(s), old, new)

escape_json_string(text) ==
    replace(replace(replace(replace(replace(text,
        "\\", <<"\\", "\\">>),
        "\"", <<"\\", "\"">>),
        "\n", <<"\\", "n">>),
        "\r", <<"\\", "r">>),
        "\t", <<"\\", "t">>)

-----------------------------------------------------------------------------
(* The model's answer and its cleaning and decoding.                        *)
(* A response text is [kind, fenced, items]: kind "no_markers" has no '['   *)
(* or no ']', kind "malformed" has both but does not decode, kind "array"   *)
(* decodes to the list items; fenced says whether code fences and prose     *)
(* surround the bracketed span.                                             *)

EmptyText == [kind |-> "empty", fenced |-> FALSE, items |-> <<>>]

clean_gemini_json(json_string) ==
    IF json_string.kind \in {"no_markers", "empty"}
    THEN EmptyText
    ELSE [json_string EXCEPT !.fenced = FALSE]

\* json.loads: [raised, value]
json_loads(cleaned_json) ==
    IF cleaned_json.kind = "array" /\ ~cleaned_json.fenced
    THEN [raised |-> FALSE, value |-> JList(cleaned_json.items)]
    ELSE [raised |-> TRUE, value |-> JList(<<>>)]

-----------------------------------------------------------------------------
(* parse_gemini_response: the per-candidate checks *)

HasStr(d, key) == key \in DOMAIN d /\ d[key].t = "str"

\* utils.py:72-76
WellShaped(question) ==
    /\ question.t = "dict"
    /\ HasStr(question.v, "question")
    /\ "options" \in DOMAIN question.v
    /\ question.v["options"].t = "list"
    /\ Len(question.v["options"].v) = 4
    /\ \A i \in 1..Len(question.v["options"].v) : question.v["options"].v[i].t = "str"
    /\ HasStr(question.v, "correctAnswer")
    /\ HasStr(question.v, "explanation")

UpperCase == <<"A", "B", "C", "D", "E", "F", "G", "H", "I", "J", "K", "L", "M",
               "N", "O", "P", "Q", "R", "S", "T", "U", "V", "W", "X", "Y", "Z">>
LowerCase == <<"a", "b", "c", "d", "e", "f", "g", "h", "i", "j", "k", "l", "m",
               "n", "o", "p", "q", "r", "s", "t", "u", "v", "w", "x", "y", "z">>
\* str.lower() on ASCII
lower(s) ==
    [i \in 1..Len(s) |->
        IF \E k \in 1..Len(UpperCase) : UpperCase[k] = s[i]
        THEN LowerCase[CHOOSE k \in 1..Len(UpperCase) : UpperCase[k] = s[i]]
        ELSE s[i]]
\* a in b, for strings
IsSubstring(a, b) ==
    \E i \in 0..Len(b) : i + Len(a) <= Len(b) /\ SubSeq(b, i + 1, i + Len(a)) = a

\* the looser match: case-insensitive substring containment
AnswerContained(question) ==
    LET correct_answer == lower(strip(question.v["correctAnswer"].v))
        opts == question.v["options"].v
    IN  \E i \in 1..Len(opts) : IsSubstring(correct_answer, lower(strip(opts[i].v)))

\* utils.py:78-79
AnswerMatches(question) ==
    LET correct_answer == strip(question.v["correctAnswer"].v)
        opts == question.v["options"].v
    IN  \E i \in 1..Len(opts) : correct_answer = strip(opts[i].v)

IsValidQuestion(question) == WellShaped(question) /\ AnswerMatches(question)

\* utils.py:80-85
AcceptedRecord(question) ==
    [question |-> escape_json_string(question.v["question"].v),
     options |-> [i \in 1..Len(question.v["options"].v) |->
                     escape_json_string(question.v["options"].v[i].v)],
     correctAnswer |-> escape_json_string(question.v["correctAnswer"].v),
     explanation |-> escape_json_string(question.v["explanation"].v)]

\* utils.py:70-89, the loop over the decoded list
RECURSIVE ValidQuestions(_)
ValidQuestions(questions) ==
    IF questions = <<>> THEN <<>>
    ELSE (IF IsValidQuestion(Head(questions))
          THEN <<AcceptedRecord(Head(questions))>>
          ELSE <<>>) \o ValidQuestions(Tail(questions))

\* the "strict" policy: any invalid candidate discards the batch
StrictValidQuestions(questions) ==
    IF \A i \in 1..Len(questions) : IsValidQuestion(questions[i])
    THEN ValidQuestions(questions)
    ELSE <<>>

valid_questions(questions) == ValidQuestions(questions)

parse_gemini_response(text) ==
    LET cleaned_json == clean_gemini_json(text)
        decoded == json_loads(cleaned_json)
    IN  IF cleaned_json = EmptyText THEN None
        ELSE IF decoded.raised THEN None
        ELSE IF decoded.value.t # "list" THEN None
        ELSE IF Len(valid_questions(decoded.value.v)) > 0
             THEN Some(valid_questions(decoded.value.v))
             ELSE None


-----------------------------------------------------------------------------
(* Inputs of the validator's specification: decoded candidates as the model *)
(* client may produce them.                                                  *)

tA == <<"A">>
tB == <<"B">>
tC == <<"C">>
tD == <<"D">>
tExpl == <<"e">>

Candidate(q, opts, ans, expl) ==
    JDict([question |-> JStr(q),
           options |-> JList([i \in 1..Len(opts) |-> JStr(opts[i])]),
           correctAnswer |-> JStr(ans),
           explanation |-> JStr(expl)])

Good1 == Candidate(<<"Q", "1">>, <<tA, tB, tC, tD>>, tA, tExpl)
\* string fields with a quote, a backslash, a newline and a tab
Good2 == Candidate(<<"Q", "\"", "2">>, <<tA, tB, <<"\\", "C">>, tD>>, tB, <<"e", "\n", "\t", "f">>)
\* correctAnswer with trailing whitespace
PadAnswer == Candidate(<<"Q", "3">>, <<tA, tB, tC, tD>>, <<"A", " ">>, tExpl)
\* an option with leading whitespace
PadOption == Candidate(<<"Q", "4">>, <<<<" ", "A">>, tB, tC, tD>>, tA, tExpl)
\* two options equal up to surrounding whitespace
DupOption == Candidate(<<"Q", "5">>, <<tA, <<"A", " ">>, tB, tC>>, tA, tExpl)
\* correctAnswer that is none of the options
WrongAnswer == Candidate(<<"Q", "6">>, <<tA, tB, tC, tD>>, <<"Z">>, tExpl)
\* three options only
ThreeOptions == Candidate(<<"Q", "7">>, <<tA, tB, tC>>, tA, tExpl)
\* no explanation key, and a number among the options
NoExplanation ==
    JDict([question |-> JStr(<<"Q", "8">>),
           options |-> JList(<<JStr(tA), JStr(tB), JStr(tC), JNum(4)>>),
           correctAnswer |-> JStr(tA)])
\* a list element that is not an object
NotDict == JStr(<<"Q", "9">>)
tParis == <<"P", "a", "r", "i", "s">>
tParisFrance == tParis \o <<",", " ", "F", "r", "a", "n", "c", "e">>
\* correctAnswer that is a fragment of the option "  Paris, France  "
ParisFragment ==
    Candidate(<<"Q", "P">>, <<<<" ", " ">> \o tParisFrance \o <<" ", " ">>, tB, tC, tD>>,
              tParis, tExpl)

CandidatePool ==
    {Good1, Good2, PadAnswer, PadOption, DupOption, WrongAnswer, ThreeOptions,
     NoExplanation, NotDict, ParisFragment}

SeqsUpTo(S, n) == UNION {[1..k -> S] : k \in 0..n}

ArrayText(items, fenced) == [kind |-> "array", fenced |-> fenced, items |-> items]
NoMarkersText == [kind |-> "no_markers", fenced |-> FALSE, items |-> <<>>]
MalformedText == [kind |-> "malformed", fenced |-> FALSE, items |-> <<>>]

ParseInputs ==
    {NoMarkersText, MalformedText}
        \cup {ArrayText(items, FALSE) : items \in SeqsUpTo(CandidatePool, MaxCandidates)}
        \cup {ArrayText(items, TRUE) : items \in SeqsUpTo(CandidatePool, 1)}


-----------------------------------------------------------------------------
(* The fetch: utils.py:106-152.  The model client is a black box: a call    *)
(* raises (ModelError) or returns a text.  The result is [raised, value]:   *)
(* raised says that an exception left the function.                         *)

ModelError == [kind |-> "model_error", fenced |-> FALSE, items |-> <<>>]
\* utils.py:111: get_gemini_api_key raises ValueError before the client is called
ConfigError == [kind |-> "config_error", fenced |-> FALSE, items |-> <<>>]

Returned(value) == [raised |-> FALSE, value |-> value]
Raised == [raised |-> TRUE, value |-> None]

\* the function without its `except Exception`: a client failure leaves it
FetchUncaught(outcome) ==
    IF outcome.kind \in {"model_error", "config_error"}
    THEN Raised
    ELSE LET parsed_response == parse_gemini_response(outcome)
         IN  Returned(IF Truthy(parsed_response) THEN parsed_response ELSE None)

\* one pass through the try block of utils.py:110-152, given what the client did
fetch_trivia_question_from_gemini(outcome) ==
    IF outcome.kind \in {"model_error", "config_error"}
    THEN Returned(None)                        \* utils.py:150-152
    ELSE LET parsed_response == parse_gemini_response(outcome)
         IN  Returned(IF Truthy(parsed_response) THEN parsed_response ELSE None)

\* a loop that calls the client again after a failed attempt, up to 3 calls
RetryFailedAttempt(result, calls) == ~Truthy(result.value) /\ calls < 3

\* utils.py:141-152: whatever the attempt gave, the function returns after it
AnotherAttempt(result, calls) == FALSE

-----------------------------------------------------------------------------
(* app.py: state of the process *)

Requests == {"r1", "r2"}
Categories == {"General Knowledge"}

\* what the model client returns to the handler: two valid candidates with
\* different question texts and one that the validator drops
AppPool == {Good1, Good2, WrongAnswer}

ModelOutcomes ==
    {ModelError, NoMarkersText, MalformedText}
        \cup {ArrayText(items, FALSE) : items \in SeqsUpTo(AppPool, MaxBatch)}

\* what a call of the fetch returns for each thing the client may do
FetchResults ==
    [outcome \in ModelOutcomes \cup {ConfigError} |-> fetch_trivia_question_from_gemini(outcome)]

\* utils.py:111-141: without the key the try block ends at get_gemini_api_key
Outcomes(key_present) == IF key_present THEN ModelOutcomes ELSE {ConfigError}

NoTrip == [pc |-> "none"]

\* Python dicts are functions with a finite domain
EmptyDict == [k \in {} |-> {}]
DictSet(d, key, value) == [k \in DOMAIN d \cup {key} |-> IF k = key THEN value ELSE d[k]]
DictDel(d, keys) == [k \in DOMAIN d \ keys |-> d[k]]

\* app.py:19, key_prefix of the cached response (the same key for every request)
ViewKey == "trivia_questions"
\* app.py:26, f'trivia_questions:{category}'
CatKey(category) == "trivia_questions:" \o category
CatKeys == {CatKey(c) : c \in Categories}

NoResponse == [status |-> 0, kind |-> "none", body |-> <<>>]
\* app.py:30
ErrorResponse == [status |-> 500, kind |-> "error", body |-> <<>>]
\* an exception that leaves the view: the framework answers 500
ExceptionResponse == [status |-> 500, kind |-> "exception", body |-> <<>>]
\* app.py:68
ArrayResponse(questions) == [status |-> 200, kind |-> "array", body |-> questions]

Texts(questions) == {questions[i].question : i \in 1..Len(questions)}

IdleRequest ==
    [pc |-> "idle", category |-> "General Knowledge", num_questions |-> 1,
     cached_questions |-> <<>>, available_questions |-> <<>>,
     selected_questions |-> <<>>, response |-> NoResponse,
     \* history of the current request
     fetches |-> 0,          \* calls of the fetch function
     refetches |-> 0,        \* those made at app.py:46
     calls |-> 0,            \* client calls of the latest fetch
     outcome |-> "none",     \* what the client did in the latest call
     fetch_failed |-> FALSE, \* the latest fetch returned a falsy value
     short |-> FALSE,        \* the first filter left fewer than num_questions
     from_cache |-> FALSE,   \* the response is the stored one
     overlapped |-> {}]      \* requests inside app.py:36-66 at the same time

Init ==
    /\ cache = EmptyDict
    /\ older = {}
    /\ used_questions = EmptyDict
    /\ req = [r \in Requests |-> IdleRequest]
    /\ clearPc = "idle"
    /\ response_text = NoMarkersText
    /\ parsed = [done |-> FALSE, result |-> None]
    /\ api_key \in BOOLEAN
    /\ input_text = <<>>
    /\ trip = NoTrip

Pure == <<response_text, parsed, api_key, input_text, trip>>

\* the request ends: the caller receives resp; the locals are gone
Answered(r, resp) ==
    [IdleRequest EXCEPT !.pc = "done", !.category = req[r].category, !.response = resp]

\* the decorator of app.py:19 stores the view's return value under ViewKey;
\* every category entry now in the cache was stored no later than it
StoreResponse(resp) ==
    /\ cache' = DictSet(cache, ViewKey, resp)
    /\ older' = DOMAIN cache \cap CatKeys

\* a refetch that leaves the cache entry alone
KeepBatch(category, questions) == UNCHANGED <<cache, older>>

\* cache.set(f'trivia_questions:{category}', questions)
StoreBatch(category, questions) ==
    /\ cache' = DictSet(cache, CatKey(category), questions)
    /\ older' = older \ {CatKey(category)}

\* a filter that forgets the used_questions test
UnusedUnfiltered(questions, used) == questions

\* app.py:39-41 and 53-55
Unused(questions, used) == SelectSeq(questions, LAMBDA q : q.question \notin used)

\* a refetch also when exactly num_questions are available
TooFewOrJustEnough(available_questions, num_questions) ==
    Len(available_questions) <= num_questions

\* app.py:43
TooFew(available_questions, num_questions) == Len(available_questions) < num_questions

\* used_questions[category] raises KeyError when the loop body runs without the key
KeyErrorOn(questions, category) ==
    questions # <<>> /\ category \notin DOMAIN used_questions

\* random.sample(population, k): k elements at distinct positions, in any order
Samples(population, k) ==
    {[i \in 1..k |-> population[f[i]]] :
        f \in {g \in [1..k -> 1..Len(population)] :
                  \A i, j \in 1..k : i # j => g[i] # g[j]}}

\* between the test of app.py:36 and the marking of app.py:65-66
InRegion(s) ==
    \/ req[s].pc \in {"used_init", "filter", "refilter", "mark"}
    \/ req[s].pc = "model_call" /\ req[s].refetches > 0

-----------------------------------------------------------------------------
(* get_questions, one action per access to the shared state.  Locals that   *)
(* the code does not read again are dropped as soon as they are dead.       *)

\* a POST /api/questions arrives: app.py:21-23
Start(r) ==
    /\ req[r].pc \in {"idle", "done"}
    /\ \E category \in Categories, num_questions \in 1..MaxNum :
          req' = [req EXCEPT ![r] = [IdleRequest EXCEPT !.pc = "view_get",
                                                        !.category = category,
                                                        !.num_questions = num_questions]]
    /\ UNCHANGED <<cache, older, used_questions, clearPc, Pure>>

\* app.py:19, @cache.cached: a stored response is returned without running the view
ViewGet(r) ==
    /\ req[r].pc = "view_get"
    /\ IF ViewKey \in DOMAIN cache
       THEN req' = [req EXCEPT ![r] = [Answered(r, cache[ViewKey]) EXCEPT !.from_cache = TRUE]]
       ELSE req' = [req EXCEPT ![r].pc = "cache_get"]
    /\ UNCHANGED <<cache, older, used_questions, clearPc, Pure>>

\* app.py:26-28
CacheGet(r) ==
    /\ req[r].pc = "cache_get"
    /\ IF CatKey(req[r].category) \in DOMAIN cache
       THEN req' = [req EXCEPT ![r].pc = "used_check",
                               ![r].cached_questions = cache[CatKey(req[r].category)]]
       ELSE req' = [req EXCEPT ![r].pc = "model_call", ![r].fetches = @ + 1]
    /\ UNCHANGED <<cache, older, used_questions, clearPc, Pure>>

\* utils.py:141-152: model.generate_content is called and the function returns
\* what the try block makes of the client's answer; then app.py:29-32 (first
\* fetch) or app.py:47-50 (refetch).  The call and the parsing touch no shared
\* state, so they are one step with the cache access that follows them.
ModelCall(r) ==
    /\ req[r].pc = "model_call"
    /\ \E outcome \in Outcomes(api_key) :
          LET result == FetchResults[outcome]
              category == req[r].category
              me == [req[r] EXCEPT !.calls = IF outcome = ConfigError THEN @ ELSE @ + 1,
                                   !.outcome = outcome.kind,
                                   !.fetch_failed = ~Truthy(result.value)]
          IN  IF result.raised
              THEN /\ req' = [req EXCEPT ![r] = [Answered(r, ExceptionResponse) EXCEPT
                                                    !.calls = me.calls,
                                                    !.outcome = me.outcome,
                                                    !.fetch_failed = TRUE]]
                   /\ UNCHANGED <<cache, older>>
              ELSE IF AnotherAttempt(result, me.calls)
              THEN /\ req' = [req EXCEPT ![r] = me]
                   /\ UNCHANGED <<cache, older>>
              ELSE IF req[r].refetches = 0
              THEN IF ~Truthy(result.value)
                   THEN /\ req' = [req EXCEPT ![r] = [Answered(r, ErrorResponse) EXCEPT
                                                         !.calls = me.calls,
                                                         !.outcome = me.outcome,
                                                         !.fetch_failed = TRUE]]
                        /\ StoreResponse(ErrorResponse)
                   ELSE /\ StoreBatch(category, result.value.val)
                        /\ req' = [req EXCEPT ![r] = [me EXCEPT
                                                         !.pc = "used_check",
                                                         !.cached_questions = result.value.val]]
              ELSE IF Truthy(result.value)
                   THEN /\ StoreBatch(category, result.value.val)
                        /\ req' = [req EXCEPT ![r] = [me EXCEPT
                                                         !.pc = "refilter",
                                                         !.cached_questions = result.value.val]]
                   ELSE /\ req' = [req EXCEPT ![r] = [me EXCEPT !.pc = "mark"]]
                        /\ UNCHANGED <<cache, older>>
    /\ UNCHANGED <<used_questions, clearPc, Pure>>

\* app.py:36, the test `category not in used_questions`
UsedCheck(r) ==
    /\ req[r].pc = "used_check"
    /\ LET others == {s \in Requests \ {r} : InRegion(s)}
           next == IF req[r].category \in DOMAIN used_questions THEN "filter" ELSE "used_init"
       IN  req' = [s \in Requests |->
                     IF s = r THEN [req[r] EXCEPT !.pc = next, !.overlapped = others,
                                                  !.calls = 0, !.outcome = "none",
                                                  !.fetch_failed = FALSE]
                     ELSE IF s \in others THEN [req[s] EXCEPT !.overlapped = @ \cup {r}]
                     ELSE req[s]]
    /\ UNCHANGED <<cache, older, used_questions, clearPc, Pure>>

\* app.py:37
UsedInit(r) ==
    /\ req[r].pc = "used_init"
    /\ used_questions' = DictSet(used_questions, req[r].category, {})
    /\ req' = [req EXCEPT ![r].pc = "filter"]
    /\ UNCHANGED <<cache, older, clearPc, Pure>>

\* app.py:39-46
Filter(r) ==
    /\ req[r].pc = "filter"
    /\ IF KeyErrorOn(req[r].cached_questions, req[r].category)
       THEN req' = [req EXCEPT ![r] = Answered(r, ExceptionResponse)]
       ELSE LET available == Unused(req[r].cached_questions, used_questions[req[r].category])
                me == [req[r] EXCEPT !.cached_questions = <<>>,
                                     !.available_questions = available,
                                     !.short = Len(available) < req[r].num_questions]
            IN  IF TooFew(available, req[r].num_questions)
                THEN req' = [req EXCEPT ![r] = [me EXCEPT !.pc = "model_call",
                                                          !.fetches = @ + 1,
                                                          !.refetches = @ + 1]]
                ELSE req' = [req EXCEPT ![r] = [me EXCEPT !.pc = "mark"]]
    /\ UNCHANGED <<cache, older, used_questions, clearPc, Pure>>

\* app.py:51-55
Refilter(r) ==
    /\ req[r].pc = "refilter"
    /\ IF KeyErrorOn(req[r].cached_questions, req[r].category)
       THEN req' = [req EXCEPT ![r] = Answered(r, ExceptionResponse)]
       ELSE req' = [req EXCEPT ![r].pc = "mark",
                               ![r].cached_questions = <<>>,
                               ![r].available_questions =
                                   Unused(req[r].cached_questions,
                                          used_questions[req[r].category])]
    /\ UNCHANGED <<cache, older, used_questions, clearPc, Pure>>

\* app.py:58-62
Selections(available_questions, num_questions) ==
    IF Len(available_questions) < num_questions
    THEN {available_questions}
    ELSE Samples(available_questions, num_questions)

\* app.py:65-66
MarkUsed(used, selected_questions) == used \cup Texts(selected_questions)

\* app.py:58-66
Mark(r) ==
    /\ req[r].pc = "mark"
    /\ \E selected_questions \in Selections(req[r].available_questions, req[r].num_questions) :
          IF KeyErrorOn(selected_questions, req[r].category)
          THEN /\ req' = [req EXCEPT ![r] = Answered(r, ExceptionResponse)]
               /\ UNCHANGED used_questions
          ELSE /\ req' = [req EXCEPT ![r].pc = "respond",
                                     ![r].available_questions = <<>>,
                                     ![r].selected_questions = selected_questions,
                                     ![r].calls = 0, ![r].outcome = "none",
                                     ![r].fetch_failed = FALSE]
               /\ used_questions' =
                     IF selected_questions = <<>> THEN used_questions
                     ELSE DictSet(used_questions, req[r].category,
                                  MarkUsed(used_questions[req[r].category], selected_questions))
    /\ UNCHANGED <<cache, older, clearPc, Pure>>

\* app.py:68, and the decorator of app.py:19 storing the response for an hour
Respond(r) ==
    /\ req[r].pc = "respond"
    /\ LET resp == ArrayResponse(req[r].selected_questions)
       IN  /\ req' = [req EXCEPT ![r] = Answered(r, resp)]
           /\ StoreResponse(resp)
    /\ UNCHANGED <<used_questions, clearPc, Pure>>

Step(r) ==
    \/ ViewGet(r)
    \/ CacheGet(r)
    \/ ModelCall(r)
    \/ UsedCheck(r)
    \/ UsedInit(r)
    \/ Filter(r)
    \/ Refilter(r)
    \/ Mark(r)
    \/ Respond(r)

-----------------------------------------------------------------------------
(* clear_cache_route: app.py:71-77 *)

\* app.py:73, cache.clear()
ClearCache ==
    /\ clearPc = "idle"
    /\ cache' = EmptyDict
    /\ older' = {}
    /\ clearPc' = "reset_used"
    /\ UNCHANGED <<used_questions, req, Pure>>

\* app.py:74-77, used_questions = {}
ResetUsed ==
    /\ clearPc = "reset_used"
    /\ used_questions' = EmptyDict
    /\ clearPc' = "idle"
    /\ UNCHANGED <<cache, older, req, Pure>>

-----------------------------------------------------------------------------
(* Expiry of cache entries: the category entries live for the cache's       *)
(* default timeout (app.py:13), the response for 3600 s (app.py:19), which  *)
(* is longer: an entry stored no later than the response expires before it. *)

Expire(key) ==
    /\ key \in DOMAIN cache
    /\ key = ViewKey => older \cap DOMAIN cache = {}
    /\ cache' = DictDel(cache, {key})
    /\ older' = IF key = ViewKey THEN {} ELSE older \ {key}
    /\ UNCHANGED <<used_questions, req, clearPc, Pure>>

-----------------------------------------------------------------------------
(* The validator alone: parse_gemini_response applied to a response text *)

InitParse ==
    /\ cache = EmptyDict
    /\ older = {}
    /\ used_questions = EmptyDict
    /\ req = [r \in Requests |-> IdleRequest]
    /\ clearPc = "idle"
    /\ response_text \in ParseInputs
    /\ parsed = [done |-> FALSE, result |-> None]
    /\ api_key = TRUE
    /\ input_text = <<>>
    /\ trip = NoTrip

ParseResponse ==
    /\ ~parsed.done
    /\ parsed' = [done |-> TRUE, result |-> parse_gemini_response(response_text)]
    /\ UNCHANGED <<cache, older, used_questions, req, clearPc, response_text, api_key, input_text, trip>>

-----------------------------------------------------------------------------
(* A string field on its way to the client: escape_json_string in the        *)
(* validator (utils.py:81-84), jsonify in the handler (app.py:68), and the   *)
(* JSON decoding done by the consumer of the response.                       *)

\* json.dumps of one character of a str
DumpChar(c) ==
    CASE c = "\\" -> <<"\\", "\\">>
      [] c = "\"" -> <<"\\", "\"">>
      [] c = "\n" -> <<"\\", "n">>
      [] c = "\r" -> <<"\\", "r">>
      [] c = "\t" -> <<"\\", "t">>
      [] OTHER -> <<c>>

RECURSIVE DumpChars(_)
DumpChars(s) == IF s = <<>> THEN <<>> ELSE DumpChar(Head(s)) \o DumpChars(Tail(s))

\* app.py:68, jsonify: a str becomes a quoted JSON string
json_dumps(s) == <<"\"">> \o DumpChars(s) \o <<"\"">>

\* the character that a JSON escape \c stands for
Unescaped(c) ==
    CASE c = "n" -> "\n"
      [] c = "r" -> "\r"
      [] c = "t" -> "\t"
      [] OTHER -> c

RECURSIVE DecodeChars(_)
DecodeChars(s) ==
    IF s = <<>> THEN <<>>
    ELSE IF Head(s) = "\\" /\ Len(s) >= 2
         THEN <<Unescaped(s[2])>> \o DecodeChars(Tail(Tail(s)))
         ELSE <<Head(s)>> \o DecodeChars(Tail(s))

\* the consumer's JSON decoding of a quoted JSON string
json_decode(wire) == DecodeChars(SubSeq(wire, 2, Len(wire) - 1))

\* longest string field in the escaping specification
MaxFieldLen == 3

FieldAlphabet == {"a", " ", "\\", "\"", "\n", "\t"}
FieldInputs == SeqsUpTo(FieldAlphabet, MaxFieldLen)

InitEscape ==
    /\ cache = EmptyDict
    /\ older = {}
    /\ used_questions = EmptyDict
    /\ req = [r \in Requests |-> IdleRequest]
    /\ clearPc = "idle"
    /\ response_text = NoMarkersText
    /\ parsed = [done |-> FALSE, result |-> None]
    /\ api_key = TRUE
    /\ input_text \in FieldInputs
    /\ trip = [pc |-> "field", value |-> input_text]

Handler == <<cache, older, used_questions, req, clearPc, response_text, parsed, api_key>>

\* utils.py:81-84: the validator stores the escaped field in the record
EscapeField ==
    /\ trip.pc = "field"
    /\ trip' = [pc |-> "record", value |-> escape_json_string(trip.value)]
    /\ UNCHANGED <<Handler, input_text>>

\* app.py:68: the record's field is serialised into the response body
Jsonify ==
    /\ trip.pc = "record"
    /\ trip' = [pc |-> "wire", value |-> json_dumps(trip.value)]
    /\ UNCHANGED <<Handler, input_text>>

\* the client decodes the body
ClientDecode ==
    /\ trip.pc = "wire"
    /\ trip' = [pc |-> "client", value |-> json_decode(trip.value)]
    /\ UNCHANGED <<Handler, input_text>>

NextEscape == EscapeField \/ Jsonify \/ ClientDecode

-----------------------------------------------------------------------------
(* clean_gemini_json on the characters of a text: utils.py:23-54.  Each      *)
(* re.sub is a scan from the left, MatchEnd[i] being the last position of    *)
(* the match that starts at position i (0: none) and Repl[i] what replaces   *)
(* it; matches do not overlap and a replacement is not scanned again.        *)

RECURSIVE SubFrom(_, _, _, _)
SubFrom(s, MatchEnd, Repl, i) ==
    IF i > Len(s) THEN <<>>
    ELSE IF MatchEnd[i] > 0
         THEN Repl[i] \o SubFrom(s, MatchEnd, Repl, MatchEnd[i] + 1)
         ELSE <<s[i]>> \o SubFrom(s, MatchEnd, Repl, i + 1)

re_sub(s, MatchEnd, Repl) == SubFrom(s, MatchEnd, Repl, 1)

\* \s
ReSpace == {" ", "\t", "\n", "\r"}
\* \w
ReWord == {"a", "b", "c", "d", "e", "f", "g", "h", "i", "j", "k", "l", "m",
           "n", "o", "p", "q", "r", "s", "t", "u", "v", "w", "x", "y", "z",
           "A", "B", "C", "D", "E", "F", "G", "H", "I", "J", "K", "L", "M",
           "N", "O", "P", "Q", "R", "S", "T", "U", "V", "W", "X", "Y", "Z",
           "0", "1", "2", "3", "4", "5", "6", "7", "8", "9", "_"}

\* the first position from i on that is outside the class (Len(s) + 1: none)
RunEnd(s, i, class) ==
    CHOOSE j \in i..(Len(s) + 1) :
        /\ \A k \in i..(j - 1) : s[k] \in class
        /\ j = Len(s) + 1 \/ s[j] \notin class

\* s has the characters of lit from position i on
At(s, i, lit) == i >= 1 /\ i + Len(lit) - 1 <= Len(s) /\ SubSeq(s, i, i + Len(lit) - 1) = lit

\* the backquote character (U+0060), named because a TLA+ string cannot hold it
Backquote == "backquote"
Fence == <<Backquote, Backquote, Backquote>>

\* utils.py:27: three backquotes, an optional json, blanks, a lazy group over
\* any characters, blanks and three backquotes; replaced by the group
FenceBody(s, i) ==
    LET a == IF At(s, i + 3, <<"j", "s", "o", "n">>) THEN i + 7 ELSE i + 3
    IN  RunEnd(s, a, ReSpace)
FenceCloses(s, i) ==
    {p \in FenceBody(s, i)..Len(s) : At(s, RunEnd(s, p, ReSpace), Fence)}
FenceClose(s, i) == CHOOSE p \in FenceCloses(s, i) : \A q \in FenceCloses(s, i) : p <= q
FenceMatches(s, i) == At(s, i, Fence) /\ FenceCloses(s, i) # {}
remove_code_fences(s) ==
    re_sub(s,
           [i \in 1..Len(s) |->
               IF FenceMatches(s, i) THEN RunEnd(s, FenceClose(s, i), ReSpace) + 2 ELSE 0],
           [i \in 1..Len(s) |->
               IF FenceMatches(s, i)
               THEN SubSeq(s, FenceBody(s, i), FenceClose(s, i) - 1)
               ELSE <<>>])

Brace == <<"}">>
ToBrace(s) == [i \in 1..Len(s) |-> Brace]

\* utils.py:41: blanks, a quoted word, a colon, blanks, a bracketed list on one
\* line (lazy), blanks and a closing brace
KeyListEnds(s, i) ==
    LET q1 == RunEnd(s, i, ReSpace)
        w == RunEnd(s, q1 + 1, ReWord)
        b == RunEnd(s, w + 2, ReSpace)
    IN  IF At(s, q1, <<"\"">>) /\ w > q1 + 1 /\ At(s, w, <<"\"", ":">>) /\ At(s, b, <<"[">>)
        THEN {p \in (b + 1)..Len(s) :
                 /\ s[p] = "]"
                 /\ \A k \in (b + 1)..(p - 1) : s[k] # "\n"
                 /\ At(s, RunEnd(s, p + 1, ReSpace), Brace)}
        ELSE {}
remove_key_list(s) ==
    re_sub(s,
           [i \in 1..Len(s) |->
               IF KeyListEnds(s, i) = {} THEN 0
               ELSE LET p == CHOOSE p \in KeyListEnds(s, i) : \A q \in KeyListEnds(s, i) : p <= q
                    IN  RunEnd(s, p + 1, ReSpace)],
           ToBrace(s))

\* utils.py:44: blanks, one or more characters that are no quote, closing brace
\* or newline, blanks and a closing brace; the match ends at the first closing
\* brace from i on
NotQuoteBraceNewline(c) == c \notin {"\"", "}", "\n"}
FirstBrace(s, i) == RunEnd(s, i, {s[k] : k \in 1..Len(s)} \ {"}"})
TextBeforeBrace(s, i) ==
    LET e == FirstBrace(s, i)
    IN  /\ e <= Len(s)
        /\ \E a \in i..(e - 1) : \E b \in a..(e - 1) :
              /\ \A k \in i..(a - 1) : s[k] \in ReSpace
              /\ \A k \in a..b : NotQuoteBraceNewline(s[k])
              /\ \A k \in (b + 1)..(e - 1) : s[k] \in ReSpace
remove_text_before_brace(s) ==
    re_sub(s, [i \in 1..Len(s) |-> IF TextBeforeBrace(s, i) THEN FirstBrace(s, i) ELSE 0],
           ToBrace(s))

\* utils.py:47: a comma, blanks and a closing brace
remove_comma_before_brace(s) ==
    re_sub(s,
           [i \in 1..Len(s) |->
               IF s[i] = "," /\ At(s, RunEnd(s, i + 1, ReSpace), Brace)
               THEN RunEnd(s, i + 1, ReSpace) ELSE 0],
           ToBrace(s))

\* utils.py:48: a closing brace, blanks and a comma, replaced by brace and comma
tighten_comma_after_brace(s) ==
    re_sub(s,
           [i \in 1..Len(s) |->
               IF s[i] = "}" /\ At(s, RunEnd(s, i + 1, ReSpace), <<",">>)
               THEN RunEnd(s, i + 1, ReSpace) ELSE 0],
           [i \in 1..Len(s) |-> <<"}", ",">>])

\* utils.py:51: blanks and the word json before a closing brace
remove_json_ending(s) ==
    re_sub(s,
           [i \in 1..Len(s) |->
               IF At(s, RunEnd(s, i, ReSpace), <<"j", "s", "o", "n", "}">>)
               THEN RunEnd(s, i, ReSpace) + 4 ELSE 0],
           ToBrace(s))

Positions(s, c) == {i \in 1..Len(s) : s[i] = c}
Min(S) == CHOOSE x \in S : \A y \in S : x <= y
Max(S) == CHOOSE x \in S : \A y \in S : x >= y

\* utils.py:23-54 on characters
clean_gemini_json_chars(json_string) ==
    LET unfenced == remove_code_fences(json_string)
    IN  IF Positions(unfenced, "[") = {} \/ Positions(unfenced, "]") = {}
        THEN <<>>
        ELSE remove_json_ending(
             tighten_comma_after_brace(
             remove_comma_before_brace(
             remove_text_before_brace(
             remove_key_list(
                 SubSeq(unfenced, Min(Positions(unfenced, "[")),
                                  Max(Positions(unfenced, "]"))))))))

\* longest text of the exhaustive part of the cleaning specification
MaxTextLen == 4

CleanAlphabet == {"[", "]", "{", "}", ",", " ", "a"}

\* a fenced answer: the array [{}] between a json fence and a closing fence
FencedEmptyObject ==
    Fence \o <<"j", "s", "o", "n", "\n", "[", "{", "}", "]", "\n">> \o Fence
\* an object with a stray key whose value is a list, last before the brace
StrayKeyList ==
    <<"[", "{", "\"", "a", "\"", ":", "\"", "b", "\"", " ", ",", " ", "\"", "x", "\"", ":",
      " ", "[", "1", "]", " ", "}", "]">>
\* two objects, a blank before the comma between them, a trailing comma
TrailingCommas ==
    <<"[", "{", "\"", "a", "\"", ":", "\"", "b", "\"", "}", " ", ",", " ", "{", "\"", "a",
      "\"", ":", "\"", "c", "\"", ",", "}", "]">>
\* an object that ends with a newline and the word json
JsonEnding ==
    <<"[", "{", "\"", "a", "\"", ":", "\"", "b", "\"", "\n", "j", "s", "o", "n", "}", "]">>

CleanInputs ==
    SeqsUpTo(CleanAlphabet, MaxTextLen)
        \cup {FencedEmptyObject, StrayKeyList, TrailingCommas, JsonEnding}

InitClean ==
    /\ cache = EmptyDict
    /\ older = {}
    /\ used_questions = EmptyDict
    /\ req = [r \in Requests |-> IdleRequest]
    /\ clearPc = "idle"
    /\ response_text = NoMarkersText
    /\ parsed = [done |-> FALSE, result |-> None]
    /\ api_key = TRUE
    /\ input_text \in CleanInputs
    /\ trip = [pc |-> "raw", value |-> input_text]

\* clean_gemini_json(x)
CleanOnce ==
    /\ trip.pc = "raw"
    /\ trip' = [pc |-> "cleaned", value |-> clean_gemini_json_chars(trip.value)]
    /\ UNCHANGED <<Handler, input_text>>

\* clean_gemini_json(clean_gemini_json(x))
CleanAgain ==
    /\ trip.pc = "cleaned"
    /\ trip' = [pc |-> "recleaned", value |-> trip.value,
                again |-> clean_gemini_json_chars(trip.value)]
    /\ UNCHANGED <<Handler, input_text>>

NextClean == CleanOnce \/ CleanAgain

-----------------------------------------------------------------------------
(* Specifications *)

\* requests, resets and expiry in any interleaving
Next ==
    \/ \E r \in Requests : Start(r)
    \/ \E r \in Requests : Step(r)
    \/ ClearCache
    \/ ResetUsed
    \/ \E key \in CatKeys \cup {ViewKey} : Expire(key)

Spec == Init /\ [][Next]_vars

\* a request arrives only when no other is being served
StartAlone(r) ==
    /\ \A s \in Requests : req[s].pc \in {"idle", "done"}
    /\ Start(r)

\* non-overlapping requests and no clear_cache
NextSeq ==
    \/ \E r \in Requests : StartAlone(r)
    \/ \E r \in Requests : Step(r)
    \/ \E key \in CatKeys \cup {ViewKey} : Expire(key)

SpecSeq == Init /\ [][NextSeq]_vars

SpecParse == InitParse /\ [][ParseResponse]_vars

SpecEscape == InitEscape /\ [][NextEscape]_vars

SpecClean == InitClean /\ [][NextClean]_vars

-----------------------------------------------------------------------------
(* Properties of the validator (checked under SpecParse) *)

Accepted == parsed.result.val

\* the retry budget of the specified fetchQuestions(category, count, maxRetries);
\* fetch_trivia_question_from_gemini takes no such parameter
maxRetries == 3

\* C1: every record that parse_gemini_response accepts has a correctAnswer that
\* is string-equal to one element of the record's own options list.
C1_AnswerIsAnOption ==
    parsed.done =>
        \A i \in 1..Len(Accepted) :
            \E j \in DOMAIN Accepted[i].options :
                Accepted[i].correctAnswer = Accepted[i].options[j]

\* C7: every accepted record has exactly 4 options, pairwise distinct after
\* trimming.
C7_FourDistinctOptions ==
    parsed.done =>
        \A i \in 1..Len(Accepted) :
            /\ Len(Accepted[i].options) = 4
            /\ \A j, k \in DOMAIN Accepted[i].options :
                  j # k => strip(Accepted[i].options[j]) # strip(Accepted[i].options[k])

ValidIndices(items) == {i \in 1..Len(items) : IsValidQuestion(items[i])}
\* the k-th smallest element of a set of indices
KthOf(S, k) == CHOOSE i \in S : Cardinality({j \in S : j <= i}) = k

\* C8: for a text that decodes to a list, parse_gemini_response returns exactly
\* the candidates that pass every check, in source order (None when there is
\* none): an invalid candidate never removes a valid one.
C8_LenientPerRecord ==
    (parsed.done /\ response_text.kind = "array") =>
        LET items == response_text.items
            V == ValidIndices(items)
        IN  /\ Len(Accepted) = Cardinality(V)
            /\ \A k \in 1..Len(Accepted) : Accepted[k] = AcceptedRecord(items[KthOf(V, k)])
            /\ parsed.result.some <=> V # {}

\* a batch of 5 candidates of which 1 fails has yielded 4 records
C8_Witness ==
    /\ parsed.done
    /\ response_text.kind = "array"
    /\ Len(response_text.items) = 5
    /\ Cardinality(ValidIndices(response_text.items)) = 4
    /\ Len(Accepted) = 4

ExactMatch(item) ==
    \E j \in 1..4 : strip(item.v["correctAnswer"].v) = strip(item.v["options"].v[j].v)
Range(f) == {f[i] : i \in DOMAIN f}

\* C12 as stated: the candidate with correctAnswer "Paris" and the option
\* "  Paris, France  " is accepted, with correctAnswer rewritten to "Paris, France".
C12_FragmentCanonicalized ==
    (parsed.done /\ response_text = ArrayText(<<ParisFragment>>, FALSE)) =>
        /\ parsed.result.some
        /\ Len(Accepted) = 1
        /\ Accepted[1].correctAnswer = tParisFrance

\* C12 as the code has it: a well-shaped candidate whose trimmed correctAnswer
\* equals none of its trimmed options (a fragment of an option included) is
\* dropped, and the correctAnswer of every accepted record is the candidate's
\* own, escaped, never rewritten to an option.
C12_FragmentDropped ==
    (parsed.done /\ response_text.kind = "array") =>
        LET items == response_text.items
        IN  /\ \A i \in 1..Len(items) :
                  (WellShaped(items[i]) /\ ~ExactMatch(items[i]))
                  => AcceptedRecord(items[i]) \notin Range(Accepted)
            /\ \A k \in 1..Len(Accepted) :
                  \E i \in 1..Len(items) :
                      /\ WellShaped(items[i])
                      /\ Accepted[k].correctAnswer =
                            escape_json_string(items[i].v["correctAnswer"].v)
                      /\ Accepted[k].question = escape_json_string(items[i].v["question"].v)

\* the fragment candidate was parsed next to a valid one: one record, not its
C12_Witness ==
    /\ parsed.done
    /\ response_text = ArrayText(<<ParisFragment, Good1>>, FALSE)
    /\ Accepted = <<AcceptedRecord(Good1)>>

-----------------------------------------------------------------------------
(* Properties of the text functions *)

SpecialChars == {"\\", "\"", "\n", "\t"}
HasSpecial(s) == \E i \in 1..Len(s) : s[i] \in SpecialChars

\* C13 (SpecEscape): for a field that contains a backslash, a double quote, a
\* newline or a tab, the text the client decodes equals the trimmed field.
C13_EscapeRoundTrip ==
    (trip.pc = "client" /\ HasSpecial(input_text)) => trip.value = strip(input_text)

\* C14 (SpecClean): cleaning a cleaned text gives the cleaned text again.
C14_CleanIdempotent ==
    trip.pc = "recleaned" => trip.again = trip.value

-----------------------------------------------------------------------------
(* Properties of the handler *)

InFlight(r) == req[r].pc \notin {"idle", "done"}
AnsweredArray(r) == req[r].pc = "done" /\ req[r].response.kind = "array"

\* C2: every response of get_questions is a non-empty array with status 200 or
\* carries an error status; a 200 response with an empty array is never produced.
C2_NonEmptyOrError ==
    \A r \in Requests :
        req[r].pc = "done" =>
            \/ req[r].response.status = 200 /\ req[r].response.kind = "array"
                  /\ req[r].response.body # <<>>
            \/ req[r].response.status = 500 /\ req[r].response.kind \in {"error", "exception"}

\* C3 (non-overlapping requests, no clear_cache: SpecSeq): two requests for the
\* same category are never answered with a common question text.
C3_NoRepeatAcrossRequests ==
    \A r1, r2 \in Requests :
        (r1 # r2 /\ AnsweredArray(r1) /\ AnsweredArray(r2)
            /\ req[r1].category = req[r2].category)
        => Texts(req[r1].response.body) \cap Texts(req[r2].response.body) = {}

FetchReturnedAfterClientError(r) ==
    req[r].outcome = "model_error" /\ req[r].pc # "model_call"

Rank(rq) ==
    CASE rq.pc = "idle" -> 0
      [] rq.pc = "view_get" -> 1
      [] rq.pc = "cache_get" -> 2
      [] rq.pc = "model_call" /\ rq.refetches = 0 -> 3
      [] rq.pc = "used_check" -> 4
      [] rq.pc = "used_init" -> 5
      [] rq.pc = "filter" -> 6
      [] rq.pc = "model_call" /\ rq.refetches > 0 -> 7
      [] rq.pc = "refilter" -> 8
      [] rq.pc = "mark" -> 9
      [] rq.pc = "respond" -> 10
      [] rq.pc = "done" -> 11

C5_State ==
    \A r \in Requests :
        /\ req[r].fetches <= 2
        /\ req[r].fetches - req[r].refetches \in {0, 1}
        /\ InFlight(r) => req[r].refetches = (IF req[r].short THEN 1 ELSE 0)
        /\ (req[r].pc = "respond" /\ Len(req[r].selected_questions) < req[r].num_questions)
              => req[r].short /\ req[r].refetches = 1
        /\ InFlight(r) => ENABLED Step(r)
        /\ req[r].pc = "done" => req[r].response # NoResponse

C5_Progress ==
    \A r \in Requests :
        (InFlight(r) /\ [req'[r] EXCEPT !.overlapped = {}] # [req[r] EXCEPT !.overlapped = {}])
        => Rank(req'[r]) > Rank(req[r])

\* C5: a request whose first filter leaves fewer than num_questions unused
\* questions fetches exactly once more, and no other request refetches; no
\* request calls the fetch more than twice; a request being served can always
\* take a step, every step moves it forward, and it ends with a response.
C5_OneRefetchThenFallBack == []C5_State /\ [][C5_Progress]_vars

\* a request that was short, refetched once and falls back to fewer than asked
C5_Witness ==
    \E r \in Requests :
        /\ req[r].pc = "respond"
        /\ req[r].short /\ req[r].refetches = 1 /\ req[r].fetches = 2
        /\ Len(req[r].selected_questions) < req[r].num_questions

FailureKinds == {"model_error", "no_markers", "malformed"}
CategoryEntries(c) == DictDel(c, {ViewKey})

\* C6: when the client fails, or its text cannot be cleaned or decoded, in the
\* fetch of a cache miss, the fetch returns its failure value and that step
\* answers 500 with the error object, leaving the category entries of the cache
\* and used_questions as they were.
C6_FailureAnswers500 ==
    [][\A r \in Requests :
          (/\ req[r].pc = "model_call" /\ req[r].refetches = 0
           /\ req'[r].calls = req[r].calls + 1
           /\ req'[r].outcome \in FailureKinds)
          => /\ req'[r].fetch_failed
             /\ req'[r].pc = "done"
             /\ req'[r].response = ErrorResponse
             /\ CategoryEntries(cache') = CategoryEntries(cache)
             /\ used_questions' = used_questions]_vars

\* a cache-miss fetch has failed and was answered 500 while questions are recorded as served
C6_Witness ==
    \E r \in Requests :
        /\ req[r].pc = "done" /\ req[r].outcome \in FailureKinds
        /\ req[r].response = ErrorResponse
        /\ \E c \in DOMAIN used_questions : used_questions[c] # {}

\* C9: a request marks as served a text that is already marked only when
\* another request was between its own test of app.py:36 and its marking at the
\* same time: the repeat comes from the filter and the marking not being one
\* atomic step (the witness is the state the claim says is reachable).
C9_RepeatOnlyByRace ==
    [][\A r \in Requests :
          (/\ req[r].pc = "mark" /\ req'[r].pc = "respond"
           /\ req[r].category \in DOMAIN used_questions
           /\ Texts(req'[r].selected_questions) \cap used_questions[req[r].category] # {})
          => req[r].overlapped # {}]_vars

\* two concurrent requests for one category: the first was answered with a
\* question that the second, which ran its filter-to-mark window at the same
\* time, has selected too
C9_Witness ==
    \E r1, r2 \in Requests :
        /\ r1 # r2 /\ req[r1].category = req[r2].category
        /\ AnsweredArray(r1) /\ ~req[r1].from_cache
        /\ req[r2].pc = "respond" /\ r1 \in req[r2].overlapped
        /\ Texts(req[r1].response.body) \cap Texts(req[r2].selected_questions) # {}

\* C10: used_questions[category] after a step is a superset of its value before
\* the step, unless the step is clear_cache's reset.
C10_UsedOnlyGrows ==
    [][(\E c \in DOMAIN used_questions :
            c \notin DOMAIN used_questions' \/ ~(used_questions[c] \subseteq used_questions'[c]))
       => (clearPc = "reset_used" /\ clearPc' = "idle")]_vars

\* C11: when clear_cache completes, used_questions is empty for every category
\* and the cache holds no batch and no response.
C11_ResetLeavesNothing ==
    [][(clearPc = "reset_used" /\ clearPc' = "idle")
       => (used_questions' = EmptyDict /\ cache' = EmptyDict)]_vars

\* C15: a process without GEMINI_API_KEY never answers a get_questions request.
C15_NoAnswerWithoutKey ==
    ~api_key => \A r \in Requests : req[r].pc # "done"

\* C16: a request answered with an array receives at most num_questions records.
C16_AtMostNumQuestions ==
    [][\A r \in Requests :
          (req[r].pc # "done" /\ req'[r].pc = "done" /\ req'[r].response.kind = "array")
          => Len(req'[r].response.body) <= req[r].num_questions]_vars

RefetchReturns(r) ==
    req[r].pc = "model_call" /\ req[r].refetches > 0 /\ req'[r].pc # "model_call"

\* C17: a refetch that fails leaves the cache as it was and the available list
\* as the first filter made it, and the request is then answered with exactly
\* that list; a refetch that succeeds puts the new batch in the category's cache
\* entry, and the available list becomes the unused questions of the new batch,
\* in order, and nothing else.
C17_RefetchFrame ==
    [][\A r \in Requests :
          /\ RefetchReturns(r) =>
                IF req'[r].fetch_failed
                THEN /\ cache' = cache
                     /\ req'[r].pc = "mark"
                     /\ req'[r].available_questions = req[r].available_questions
                ELSE /\ req'[r].pc = "refilter"
                     /\ CatKey(req[r].category) \in DOMAIN cache'
                     /\ cache'[CatKey(req[r].category)] = req'[r].cached_questions
          /\ (req[r].pc = "refilter" /\ req'[r].pc = "mark") =>
                req'[r].available_questions =
                    SelectSeq(req[r].cached_questions,
                              LAMBDA q : q.question \notin used_questions[req[r].category])
          /\ (req[r].pc = "mark" /\ req[r].fetch_failed /\ req'[r].pc = "respond") =>
                req'[r].selected_questions = req[r].available_questions]_vars

\* a refetch has failed while the old batch is in the cache and one of its
\* questions is still unused
C17_Witness ==
    \E r \in Requests :
        /\ req[r].pc = "mark" /\ req[r].refetches = 1 /\ req[r].fetch_failed
        /\ req[r].available_questions # <<>>
        /\ CatKey(req[r].category) \in DOMAIN cache
        /\ Texts(req[r].available_questions) \subseteq Texts(cache[CatKey(req[r].category)])

\* C18: no request ends with an exception leaving the view (in the handler only
\* used_questions[category] can raise, after clear_cache has replaced the dict).
C18_ClearNeverFailsRequest ==
    \A r \in Requests : req[r].pc = "done" => req[r].response.kind # "exception"

=============================================================================
